---- MODULE Spec2Model ----
(***************************************************************************)
(* The two session state machines of the repository:                       *)
(*   - the playback session (useWebAudio in App.tsx, and its twin the      *)
(*     MusicPlayer component), and                                         *)
(*   - the capture session (VideoTest.tsx).                                *)
(*                                                                         *)
(* Time is counted in units of 0.1 s: the end-of-media epsilon (0.1 s) and *)
(* the elapsed-time sampling period (100 ms) are one unit.  The code uses  *)
(* the audio clock only in differences with the timestamps it has stored,  *)
(* so timestamps are kept relative to the present instant: currentTime     *)
(* reads 0 and a tick of the clock ages every stored timestamp by one.     *)
(* A handler runs                                                          *)
(* to completion against the values of the last committed render; the      *)
(* asynchronous platform calls (fetch/decode, getUserMedia, enumerate-     *)
(* Devices, applyConstraints), the ended event of a source and the         *)
(* setTimeout/setInterval callbacks are separate steps.                    *)
(***************************************************************************)
EXTENDS Integers, Sequences, FiniteSets, TLC

----------------------------------------------------------------------------
(* Bounds of the model *)

NumClips == 2        \* distinct audio clips a URL may decode to
MaxClock == 4        \* the clock stops once startTimeRef is this far in the past
MaxSources == 2      \* buffer source nodes alive at a time
MaxTimers == 1       \* deferred restarts (setTimeout(play, 50)) outstanding
MaxLoads == 1        \* loadUrl calls in flight
MaxOverlap == 2      \* loadUrl calls in flight where loads overlap
NumDevices == 2      \* cameras the platform lists
MaxStreams == 3      \* media streams getUserMedia returns in a session
MaxCalls == 2        \* platform promises of the capture session pending at a time

(* Program constant: the end-of-media tolerance, 0.1 s, in 0.1 s units *)
Epsilon == 1

(* Program constant: the default initialVolume, 0.7, in tenths *)
InitialVolume == 7

Clips == 1..NumClips
ClipDuration(c) == c + 1       \* durations 0.2 s, 0.3 s, ...
MaxDuration == ClipDuration(NumClips)
SeekArgs == (-1)..(MaxDuration + 1)
SourceIds == 1..MaxSources
VolumeArgs == {-5, 0, 5, 10, 15}   \* volumes -0.5 ... 1.5, in tenths

----------------------------------------------------------------------------
VARIABLES
  \* ---- playback session: React state
  isPlaying, currentTime, duration, fileName, isLoaded, isLoadingUrl,
  volume,         \* in tenths
  \* ---- playback session: refs
  ctx,            \* audioContextRef: "none" | "running" | "closed"
  audioBufferRef, \* 0 (null) or the decoded clip
  sourceRef,      \* 0 (null) or a source id
  startTimeRef, pauseTimeRef,
  \* ---- playback session: platform objects and pending callbacks
  gain,           \* gainNodeRef.current.gain.value, in tenths, once ctx exists
  sources,        \* every AudioBufferSourceNode created so far
  timers,         \* pending setTimeout(play, 50) callbacks, oldest first
  loads,          \* loadUrl calls suspended at an await
  mounted,        \* the component owning the hook is mounted
  intervals,      \* live setInterval(updateTime, 100) timers
  frames,         \* pending requestAnimationFrame(drawVisualizer) callbacks
  animationFrameRef, \* 1: holds the id of a pending frame; 0: of none
  lastOp          \* history: the last control operation invoked, or the callback that
                  \* stopped playback after it; n flips at every control operation

avars == <<isPlaying, currentTime, duration, fileName, isLoaded, isLoadingUrl,
           ctx, audioBufferRef, sourceRef, startTimeRef, pauseTimeRef,
           sources, timers, loads, mounted, lastOp, volume, gain,
           intervals, frames, animationFrameRef>>

VARIABLES
  \* ---- capture session: React state
  stream,            \* 0 (null) or the id of a MediaStream
  isStreaming, error, cameras, selectedCameraId,
  trackCapabilities, trackConstraints, trackSettings,
  \* ---- capture session: platform objects and pending promises
  streams,           \* every MediaStream getUserMedia has returned
  calls,             \* getUserMedia / enumerateDevices / applyConstraints awaited
  accessors,         \* the track accessors this browser implements
  present,           \* the cameras plugged in
  lastV              \* history: the last user operation, or the completion after
                     \* it; n flips at every user operation

vvars == <<stream, isStreaming, error, cameras, selectedCameraId,
           trackCapabilities, trackConstraints, trackSettings,
           streams, calls, accessors, present, lastV>>

VARIABLES
  \* ---- enumerateCameras, as a function of what the platform lists
  devices,           \* the MediaDeviceInfo list enumerateDevices() resolves with
  videoDevices       \* the list enumerateCameras() builds from it

evars == <<devices, videoDevices>>

VARIABLES
  \* ---- a MusicPlayer component driven by the same events as the hook
  player

vars == <<avars, vvars, evars, player>>

----------------------------------------------------------------------------
(* Playback session *)

NoSource ==
  [st |-> "unused", endAt |-> 0, cdur |-> 0, pend |-> FALSE, conn |-> FALSE]

UnusedSources == {s \in SourceIds : sources[s].st = "unused"}

\* the node createSource() returns: a fresh one
NewSource == CHOOSE s \in UnusedSources : \A u \in UnusedSources : s <= u

\* sources that have been started and have neither been stopped nor ended
Started == {s \in SourceIds : sources[s].st = "playing"}

\* nodes that are finished, have no event pending and are no longer referenced
\* can no longer be observed: their slot is free again
Recycle(srcs, ref) ==
  [s \in SourceIds |->
     IF s # ref /\ srcs[s].st \in {"created", "stopped", "ended"} /\ ~srcs[s].pend
     THEN NoSource ELSE srcs[s]]

Op(name) == [op |-> name, arg |-> 0, n |-> 1 - lastOp.n]

OpArg(name, arg) == [op |-> name, arg |-> arg, n |-> 1 - lastOp.n]

\* no MusicPlayer beside the hook
NoPlayer ==
  [on |-> FALSE, isPlaying |-> FALSE, currentTime |-> 0, duration |-> 0,
   volume |-> InitialVolume, ctx |-> "none", audioBufferRef |-> 0, sourceRef |-> 0,
   startTimeRef |-> 0, pauseTimeRef |-> 0, gain |-> InitialVolume,
   sources |-> [s \in SourceIds |-> NoSource], timers |-> <<>>]

InitAudio ==
  /\ player = NoPlayer
  /\ isPlaying = FALSE
  /\ currentTime = 0
  /\ duration = 0
  /\ fileName = 0
  /\ isLoaded = FALSE
  /\ isLoadingUrl = FALSE
  /\ ctx = "none"
  /\ audioBufferRef = 0
  /\ sourceRef = 0
  /\ startTimeRef = 0
  /\ pauseTimeRef = 0
  /\ sources = [s \in SourceIds |-> NoSource]
  /\ timers = <<>>
  /\ loads = <<>>
  /\ mounted = TRUE
  /\ lastOp = [op |-> "init", arg |-> 0, n |-> 0]
  /\ volume = InitialVolume
  /\ gain = InitialVolume
  /\ intervals = 0
  /\ frames = 0
  /\ animationFrameRef = 0

\* audioContextRef.current.currentTime, the origin of the stored timestamps
now == 0

\* audioContextRef.current.currentTime - startTimeRef.current
Elapsed == now - startTimeRef

\* initializeAudioContext(): creates the context and the gain/analyser chain once
InitializedCtx == IF ctx = "none" THEN "running" ELSE ctx

\* play(): the guard of its first line
CanPlay == ctx # "none" /\ audioBufferRef # 0

\* source.start(0, offset) raises RangeError for a negative offset
StartThrows(offset) == offset < 0

\* the node after source.start(0, offset) and source.onended = ...; a start at
\* or past the end of the buffer ends at once
StartedNode(offset, cdur) ==
  LET left == ClipDuration(audioBufferRef) - offset IN
  [st |-> IF left <= 0 /\ ctx = "running" THEN "ended" ELSE "playing",
   endAt |-> IF left <= 0 /\ ctx = "running" THEN 0 ELSE now + left,
   cdur |-> cdur,
   pend |-> (left <= 0 /\ ctx = "running"),
   conn |-> TRUE]

\* the node createSource() returned, when start() threw before onended was set
CreatedNode == [NoSource EXCEPT !.st = "created", !.conn = TRUE]

\* a faulty StartAnchor, which forgets the offset; C7 fails with it
StartAnchorNoOffset(t, offset) == t

\* startTimeRef.current = currentTime - pauseTimeRef.current
StartAnchor(t, offset) == t - offset

\* play() with the duration its closure captured; p is pauseTimeRef.current
PlayEffect(cdur, p) ==
  IF ~CanPlay
  THEN UNCHANGED <<sourceRef, startTimeRef, sources, isPlaying>>
  ELSE /\ sourceRef' = NewSource
       /\ startTimeRef' = StartAnchor(now, p)
       /\ IF StartThrows(p)
          THEN /\ sources' = Recycle([sources EXCEPT ![NewSource] = CreatedNode], NewSource)
               /\ UNCHANGED isPlaying
          ELSE /\ sources' = Recycle([sources EXCEPT ![NewSource] = StartedNode(p, cdur)],
                                     NewSource)
               /\ isPlaying' = IF mounted THEN TRUE ELSE isPlaying

\* play() needs a node only when it gets past its guard
PlayBounded == CanPlay => UnusedSources # {}

\* sourceRef.current.stop() raises InvalidStateError on a node never started
PauseThrows == sourceRef # 0 /\ sources[sourceRef].st = "created"

\* node.stop(): a playing node stops and its ended event is queued
StopNode(srcs, s) ==
  IF srcs[s].st = "playing"
  THEN [srcs EXCEPT ![s].st = "stopped", ![s].pend = TRUE, ![s].endAt = 0]
  ELSE srcs

\* the two clamps of pause(), in the order the code applies them
ClampOffset(e, d) ==
  LET a == IF e < 0 THEN 0 ELSE e IN
  IF a > d THEN d ELSE a

\* pause(), when stop() does not throw; p is pauseTimeRef.current on entry
PauseEffect(p) ==
  /\ sources' = Recycle(IF sourceRef # 0 THEN StopNode(sources, sourceRef) ELSE sources, 0)
  /\ sourceRef' = 0
  /\ pauseTimeRef' = IF ctx # "none" THEN ClampOffset(Elapsed, duration) ELSE p
  /\ isPlaying' = FALSE

\* a faulty SeekOffset, which rewinds; C12 fails with it
SeekOffsetZero(time) == 0

\* the offset seek(time) writes to pauseTimeRef
SeekOffset(time) == time

UNCHANGED_Load == UNCHANGED <<duration, fileName, isLoaded, isLoadingUrl, audioBufferRef, loads>>

UNCHANGED_Gain == UNCHANGED <<volume, gain>>

\* a faulty ClearedIntervals: a cleanup that leaves the timer running; C26
\* fails with it
ClearedIntervalsNot == intervals

\* clearInterval(interval) of the playing effect's cleanup
ClearedIntervals == intervals - 1

\* The effect on [isPlaying, duration, drawVisualizer] as the commit of this
\* step runs it: the cleanup of its last run (clearInterval, and
\* cancelAnimationFrame of the frame animationFrameRef names), then, while
\* mounted and playing, setInterval(updateTime, 100) and drawVisualizer(),
\* which requests the first frame. An unmount runs the cleanup only.
PlayingEffects ==
  LET rerun == mounted /\ (isPlaying' # isPlaying \/ duration' # duration \/ ~mounted')
      cleanup == rerun /\ isPlaying
      setup == rerun /\ mounted' /\ isPlaying'
      cancels == cleanup /\ animationFrameRef = 1
      draws == setup /\ ctx' # "none"
  IN /\ intervals' = (IF cleanup THEN ClearedIntervals ELSE intervals)
                        + (IF setup THEN 1 ELSE 0)
     /\ frames' = (IF cancels THEN frames - 1 ELSE frames) + (IF draws THEN 1 ELSE 0)
     /\ animationFrameRef' = IF draws THEN 1 ELSE IF cancels THEN 0 ELSE animationFrameRef

----------------------------------------------------------------------------
(* The MusicPlayer component, run beside the hook on the same events. Its
   state is the record player; player.on says that the component is there. *)

P_Unused(p) == {s \in SourceIds : p.sources[s].st = "unused"}

\* MusicPlayer.createSource(): a fresh node
P_NewSource(p) == CHOOSE s \in P_Unused(p) : \A u \in P_Unused(p) : s <= u

\* MusicPlayer.play(): the guard of its first line
P_CanPlay(p) == p.ctx # "none" /\ p.audioBufferRef # 0

\* the node after source.start(0, offset) in MusicPlayer.play()
P_StartedNode(p, cdur) ==
  LET left == ClipDuration(p.audioBufferRef) - p.pauseTimeRef
      over == left <= 0 /\ p.ctx = "running"
  IN [st |-> IF over THEN "ended" ELSE "playing",
      endAt |-> IF over THEN 0 ELSE now + left,
      cdur |-> cdur,
      pend |-> over,
      conn |-> TRUE]

\* MusicPlayer.play() with the duration its closure captured
P_Play(p, cdur) ==
  IF ~P_CanPlay(p) THEN p
  ELSE LET n == P_NewSource(p)
           threw == StartThrows(p.pauseTimeRef)
           node == IF threw THEN CreatedNode ELSE P_StartedNode(p, cdur)
       IN [p EXCEPT !.sourceRef = n,
                    !.startTimeRef = now - p.pauseTimeRef,
                    !.sources = Recycle([p.sources EXCEPT ![n] = node], n),
                    !.isPlaying = IF threw THEN @ ELSE TRUE]

\* sourceRef.current.stop() of MusicPlayer.pause() raises InvalidStateError
P_PauseThrows(p) == p.sourceRef # 0 /\ p.sources[p.sourceRef].st = "created"

\* MusicPlayer.pause(), when stop() does not throw
P_PauseEffect(p) ==
  LET elapsed == now - p.startTimeRef
      low == IF elapsed < 0 THEN 0 ELSE elapsed
      clamped == IF low > p.duration THEN p.duration ELSE low
  IN [p EXCEPT !.sources = Recycle(IF p.sourceRef # 0
                                   THEN StopNode(p.sources, p.sourceRef)
                                   ELSE p.sources, 0),
               !.sourceRef = 0,
               !.pauseTimeRef = IF p.ctx # "none" THEN clamped ELSE @,
               !.isPlaying = FALSE]

\* MusicPlayer.pause()
P_Pause(p) == IF P_PauseThrows(p) THEN p ELSE P_PauseEffect(p)

\* MusicPlayer.seek(time)
P_Seek(p, time) ==
  LET sought == [p EXCEPT !.pauseTimeRef = time, !.currentTime = time] IN
  IF ~p.isPlaying \/ P_PauseThrows(p) THEN sought
  ELSE [P_PauseEffect(sought) EXCEPT !.timers = Append(@, [cdur |-> p.duration])]

\* the setTimeout(play, 50) of MusicPlayer.seek() fires
P_Restart(p) ==
  IF p.timers = <<>> THEN p
  ELSE [P_Play(p, Head(p.timers).cdur) EXCEPT !.timers = Tail(p.timers)]

\* the onended handler MusicPlayer.play() gave node s
P_OnEnded(p, s) ==
  IF ~p.sources[s].pend THEN p
  ELSE LET q == [p EXCEPT !.sources = Recycle([p.sources EXCEPT ![s].pend = FALSE],
                                              p.sourceRef)]
       IN IF p.pauseTimeRef >= p.sources[s].cdur - Epsilon
          THEN [q EXCEPT !.isPlaying = FALSE, !.currentTime = 0, !.pauseTimeRef = 0]
          ELSE q

\* updateTime of MusicPlayer's playing effect; its interval is set while
\* isPlaying
P_UpdateTime(p) ==
  IF ~p.isPlaying \/ p.ctx = "none" THEN p
  ELSE LET elapsed == now - p.startTimeRef IN
       IF elapsed >= p.duration
       THEN [p EXCEPT !.isPlaying = FALSE, !.currentTime = 0, !.pauseTimeRef = 0]
       ELSE [p EXCEPT !.currentTime = elapsed]

\* MusicPlayer.updateVolume(newVolume)
P_UpdateVolume(p, newVolume) ==
  [p EXCEPT !.volume = newVolume,
            !.gain = IF p.ctx # "none" THEN newVolume ELSE @]

\* the audio clock of MusicPlayer's context advances by 0.1 s
P_Tick(p) ==
  IF p.ctx # "running" THEN p
  ELSE [p EXCEPT !.startTimeRef = @ - 1,
                 !.sources = [s \in SourceIds |->
                     IF p.sources[s].st # "playing" THEN p.sources[s]
                     ELSE IF p.sources[s].endAt - 1 <= now
                     THEN [p.sources[s] EXCEPT !.st = "ended", !.pend = TRUE, !.endAt = 0]
                     ELSE [p.sources[s] EXCEPT !.endAt = @ - 1]]]

\* MusicPlayer after loadAudioFile has decoded clip c
LoadedPlayer(c) ==
  [NoPlayer EXCEPT !.on = TRUE, !.duration = ClipDuration(c), !.ctx = "running",
                   !.audioBufferRef = c]

\* the event of this step reaches the MusicPlayer too, and leaves it as next
Twin(next) == player' = IF player.on THEN next ELSE player

\* MusicPlayer.play() needs a node only when it gets past its guard
TwinPlayBounded == (player.on /\ P_CanPlay(player)) => P_Unused(player) # {}

----------------------------------------------------------------------------
Play ==
  /\ mounted
  /\ PlayBounded
  /\ TwinPlayBounded
  /\ Twin(P_Play(player, player.duration))
  /\ PlayEffect(duration, pauseTimeRef)
  /\ lastOp' = Op(IF ~CanPlay THEN "playNoop"
                  ELSE IF StartThrows(pauseTimeRef) THEN "playThrew"
                  ELSE IF lastOp.op = "pausePlaying" THEN "resume"
                  ELSE "play")
  /\ UNCHANGED <<currentTime, ctx, pauseTimeRef, timers, mounted>>
  /\ UNCHANGED_Load
  /\ UNCHANGED_Gain
  /\ PlayingEffects
  /\ UNCHANGED <<vvars, evars>>

Pause ==
  /\ mounted
  /\ Twin(P_Pause(player))
  /\ IF PauseThrows
     THEN /\ lastOp' = Op("pauseThrew")
          /\ UNCHANGED <<sources, sourceRef, pauseTimeRef, isPlaying>>
     ELSE /\ lastOp' = IF isPlaying THEN OpArg("pausePlaying", Elapsed) ELSE Op("pause")
          /\ PauseEffect(pauseTimeRef)
  /\ UNCHANGED <<currentTime, ctx, startTimeRef, timers, mounted>>
  /\ UNCHANGED_Load
  /\ UNCHANGED_Gain
  /\ PlayingEffects
  /\ UNCHANGED <<vvars, evars>>

Seek(time) ==
  /\ mounted
  /\ Twin(P_Seek(player, time))
  /\ isPlaying => Len(timers) < MaxTimers
  /\ currentTime' = time
  /\ IF ~isPlaying
     THEN /\ pauseTimeRef' = SeekOffset(time)
          /\ lastOp' = OpArg("seek", time)
          /\ UNCHANGED <<sources, sourceRef, isPlaying, timers>>
     ELSE IF PauseThrows
     THEN /\ pauseTimeRef' = SeekOffset(time)
          /\ lastOp' = OpArg("seekThrew", time)
          /\ UNCHANGED <<sources, sourceRef, isPlaying, timers>>
     ELSE /\ PauseEffect(SeekOffset(time))
          /\ timers' = Append(timers, [cdur |-> duration])
          /\ lastOp' = OpArg("seekPlaying", time)
  /\ UNCHANGED <<ctx, startTimeRef, mounted>>
  /\ UNCHANGED_Load
  /\ UNCHANGED_Gain
  /\ PlayingEffects
  /\ UNCHANGED <<vvars, evars>>

\* a faulty TogglePauses, which never pauses; C25 fails with it
TogglePausesNever == FALSE

\* the test togglePlayPause() makes to choose pause() over play()
TogglePauses == isPlaying

TogglePlayPause ==
  /\ mounted
  /\ IF ~isLoaded
     THEN /\ lastOp' = Op("toggleNoop")
          /\ UNCHANGED <<sources, sourceRef, startTimeRef, pauseTimeRef, isPlaying>>
     ELSE IF TogglePauses
     THEN /\ UNCHANGED startTimeRef
          /\ IF PauseThrows
             THEN /\ lastOp' = Op("togglePauseThrew")
                  /\ UNCHANGED <<sources, sourceRef, pauseTimeRef, isPlaying>>
             ELSE /\ lastOp' = Op("togglePause")
                  /\ PauseEffect(pauseTimeRef)
     ELSE /\ PlayBounded
          /\ PlayEffect(duration, pauseTimeRef)
          /\ lastOp' = Op(IF CanPlay /\ StartThrows(pauseTimeRef)
                          THEN "togglePlayThrew" ELSE "togglePlay")
          /\ UNCHANGED pauseTimeRef
  /\ UNCHANGED <<currentTime, ctx, timers, mounted>>
  /\ UNCHANGED_Load
  /\ UNCHANGED_Gain
  /\ PlayingEffects
  /\ UNCHANGED <<vvars, evars, player>>

\* the setTimeout(play, 50) of seek() fires: play() as captured by that seek
Restart ==
  /\ timers # <<>>
  /\ PlayBounded
  /\ TwinPlayBounded
  /\ Twin(P_Restart(player))
  /\ PlayEffect(Head(timers).cdur, pauseTimeRef)
  /\ timers' = Tail(timers)
  /\ lastOp' = Op(IF lastOp.op = "seekPlaying" /\ Len(timers) = 1
                  THEN "restart" ELSE "restartLate")
  /\ UNCHANGED <<currentTime, ctx, pauseTimeRef, mounted>>
  /\ UNCHANGED_Load
  /\ UNCHANGED_Gain
  /\ PlayingEffects
  /\ UNCHANGED <<vvars, evars>>

\* the test of the onended handler set by play()
EndReached(p, cdur) == p >= cdur - Epsilon

\* the ended event of node s is delivered to the handler play() gave it
OnEnded(s) ==
  /\ sources[s].pend
  /\ Twin(P_OnEnded(player, s))
  /\ sources' = Recycle([sources EXCEPT ![s].pend = FALSE], sourceRef)
  /\ IF EndReached(pauseTimeRef, sources[s].cdur)
     THEN /\ isPlaying' = IF mounted THEN FALSE ELSE isPlaying
          /\ currentTime' = IF mounted THEN 0 ELSE currentTime
          /\ pauseTimeRef' = 0
          /\ lastOp' = [lastOp EXCEPT !.op = "ended", !.arg = 0]
     ELSE UNCHANGED <<isPlaying, currentTime, pauseTimeRef, lastOp>>
  /\ UNCHANGED <<ctx, sourceRef, startTimeRef, timers, mounted>>
  /\ UNCHANGED_Load
  /\ UNCHANGED_Gain
  /\ PlayingEffects
  /\ UNCHANGED <<vvars, evars>>

\* a faulty TimeUp, which the clock never satisfies; C6 fails with it
TimeUpNever(e, d) == e > d + MaxClock

\* the test of updateTime
TimeUp(e, d) == e >= d

\* the setInterval(updateTime, 100) callback of a live interval; its closure is
\* of a render with isPlaying true
UpdateTime ==
  /\ intervals > 0
  /\ Twin(P_UpdateTime(player))
  /\ IF ctx = "none"
     THEN UNCHANGED <<isPlaying, currentTime, pauseTimeRef, lastOp>>
     ELSE IF TimeUp(Elapsed, duration)
     THEN /\ isPlaying' = FALSE
          /\ currentTime' = 0
          /\ pauseTimeRef' = 0
          /\ lastOp' = [lastOp EXCEPT !.op = "timeUp", !.arg = 0]
     ELSE /\ currentTime' = Elapsed
          /\ UNCHANGED <<isPlaying, pauseTimeRef, lastOp>>
  /\ UNCHANGED <<ctx, sourceRef, startTimeRef, sources, timers, mounted>>
  /\ UNCHANGED_Load
  /\ UNCHANGED_Gain
  /\ PlayingEffects
  /\ UNCHANGED <<vvars, evars>>

\* a pending animation frame runs drawVisualizer: without the canvas (after
\* unmount) it returns, otherwise it draws and, being of a render with
\* isPlaying true, requests the next frame and stores its id
DrawVisualizer ==
  /\ frames > 0
  /\ \E named \in {n \in BOOLEAN : (n => animationFrameRef = 1)
                                   /\ (~n => frames > animationFrameRef)} :
       IF mounted
       THEN /\ frames' = frames
            /\ animationFrameRef' = 1
       ELSE /\ frames' = frames - 1
            /\ animationFrameRef' = IF named THEN 0 ELSE animationFrameRef
  /\ UNCHANGED <<isPlaying, currentTime, ctx, sourceRef, startTimeRef, pauseTimeRef,
                 sources, timers, mounted, lastOp, intervals>>
  /\ UNCHANGED_Load
  /\ UNCHANGED_Gain
  /\ UNCHANGED <<vvars, evars, player>>

\* the audio clock advances by 0.1 s; nodes that reach the end of their buffer end
Tick ==
  /\ ctx = "running"
  /\ Elapsed < MaxClock
  /\ Twin(P_Tick(player))
  /\ startTimeRef' = startTimeRef - 1
  /\ sources' = [s \in SourceIds |->
                   IF sources[s].st # "playing" THEN sources[s]
                   ELSE IF sources[s].endAt - 1 <= now
                   THEN [sources[s] EXCEPT !.st = "ended", !.pend = TRUE, !.endAt = 0]
                   ELSE [sources[s] EXCEPT !.endAt = @ - 1]]
  /\ UNCHANGED <<isPlaying, currentTime, ctx, sourceRef, pauseTimeRef,
                 timers, mounted, lastOp>>
  /\ UNCHANGED_Load
  /\ UNCHANGED_Gain
  /\ PlayingEffects
  /\ UNCHANGED <<vvars, evars>>

\* loadUrl(url) up to its first await, with at most bound calls in flight; url 0
\* is the empty or blank URL
LoadUrlWithin(url, bound) ==
  /\ mounted
  /\ IF url = 0
     THEN /\ lastOp' = Op("loadBlank")
          /\ UNCHANGED <<isLoadingUrl, ctx, loads>>
     ELSE /\ Len(loads) < bound
          /\ isLoadingUrl' = TRUE
          /\ ctx' = InitializedCtx
          /\ loads' = Append(loads, url)
          /\ lastOp' = Op("loadUrl")
  /\ gain' = IF url # 0 /\ ctx = "none" THEN volume ELSE gain
  /\ UNCHANGED <<isPlaying, currentTime, duration, fileName, isLoaded, audioBufferRef,
                 sourceRef, startTimeRef, pauseTimeRef, sources, timers, mounted, volume>>
  /\ PlayingEffects
  /\ UNCHANGED <<vvars, evars, player>>

LoadUrl(url) == LoadUrlWithin(url, MaxLoads)

\* loadUrl(url) where a second call may be made while one is in flight
LoadUrlOverlapping(url) == LoadUrlWithin(url, MaxOverlap)

RemoveAt(q, i) == SubSeq(q, 1, i - 1) \o SubSeq(q, i + 1, Len(q))

\* sourceRef.current.disconnect() of loadUrl
Disconnected(srcs, s) == IF s # 0 THEN [srcs EXCEPT ![s].conn = FALSE] ELSE srcs

\* history, for a completing load: 1 when another load is still in flight, 2
\* when it completes right after one that completed with it in flight
Overlapped ==
  IF Len(loads) > 1 THEN 1
  ELSE IF lastOp.op = "loaded" /\ lastOp.arg = 1 THEN 2
  ELSE 0

\* a faulty LoadResolve, which names the clip after the load issued last; C33
\* fails with it
LoadResolveLatestName(i) ==
  /\ i \in 1..Len(loads)
  /\ audioBufferRef' = loads[i]
  /\ duration' = IF mounted THEN ClipDuration(loads[i]) ELSE duration
  /\ fileName' = IF mounted THEN loads[Len(loads)] ELSE fileName
  /\ isLoaded' = IF mounted THEN TRUE ELSE isLoaded
  /\ currentTime' = IF mounted THEN 0 ELSE currentTime
  /\ pauseTimeRef' = 0
  /\ sources' = Disconnected(sources, sourceRef)
  /\ isLoadingUrl' = IF mounted THEN FALSE ELSE isLoadingUrl
  /\ loads' = RemoveAt(loads, i)
  /\ lastOp' = OpArg("loaded", Overlapped)
  /\ UNCHANGED <<isPlaying, ctx, sourceRef, startTimeRef, timers, mounted>>
  /\ UNCHANGED_Gain
  /\ PlayingEffects
  /\ UNCHANGED <<vvars, evars, player>>

\* fetch, arrayBuffer and decodeAudioData of the i-th pending load all succeeded
LoadResolve(i) ==
  /\ i \in 1..Len(loads)
  /\ audioBufferRef' = loads[i]
  /\ duration' = IF mounted THEN ClipDuration(loads[i]) ELSE duration
  /\ fileName' = IF mounted THEN loads[i] ELSE fileName
  /\ isLoaded' = IF mounted THEN TRUE ELSE isLoaded
  /\ currentTime' = IF mounted THEN 0 ELSE currentTime
  /\ pauseTimeRef' = 0
  /\ sources' = Disconnected(sources, sourceRef)
  /\ isLoadingUrl' = IF mounted THEN FALSE ELSE isLoadingUrl
  /\ loads' = RemoveAt(loads, i)
  /\ lastOp' = OpArg("loaded", Overlapped)
  /\ UNCHANGED <<isPlaying, ctx, sourceRef, startTimeRef, timers, mounted>>
  /\ UNCHANGED_Gain
  /\ PlayingEffects
  /\ UNCHANGED <<vvars, evars, player>>

\* a faulty LoadReject, whose catch block also unloads the clip; C32 fails with
\* it
LoadRejectUnloads(i) ==
  /\ i \in 1..Len(loads)
  /\ isLoadingUrl' = IF mounted THEN FALSE ELSE isLoadingUrl
  /\ isLoaded' = IF mounted THEN FALSE ELSE isLoaded
  /\ loads' = RemoveAt(loads, i)
  /\ lastOp' = Op("loadFailed")
  /\ UNCHANGED <<isPlaying, currentTime, duration, fileName, ctx,
                 audioBufferRef, sourceRef, startTimeRef, pauseTimeRef, sources, timers,
                 mounted>>
  /\ UNCHANGED_Gain
  /\ PlayingEffects
  /\ UNCHANGED <<vvars, evars, player>>

\* one of them failed: the catch block rethrows, the finally block runs
LoadReject(i) ==
  /\ i \in 1..Len(loads)
  /\ isLoadingUrl' = IF mounted THEN FALSE ELSE isLoadingUrl
  /\ loads' = RemoveAt(loads, i)
  /\ lastOp' = Op("loadFailed")
  /\ UNCHANGED <<isPlaying, currentTime, duration, fileName, isLoaded, ctx,
                 audioBufferRef, sourceRef, startTimeRef, pauseTimeRef, sources, timers,
                 mounted>>
  /\ UNCHANGED_Gain
  /\ PlayingEffects
  /\ UNCHANGED <<vvars, evars, player>>

\* setVolume(newVolume): setVolumeState, and the gain node's value if the
\* node exists
SetVolume(newVolume) ==
  /\ mounted
  /\ Twin(P_UpdateVolume(player, newVolume))
  /\ volume' = newVolume
  /\ gain' = IF ctx # "none" THEN newVolume ELSE gain
  /\ lastOp' = OpArg("setVolume", newVolume)
  /\ UNCHANGED <<isPlaying, currentTime, ctx, sourceRef, startTimeRef, pauseTimeRef,
                 sources, timers, mounted>>
  /\ UNCHANGED_Load
  /\ PlayingEffects
  /\ UNCHANGED <<vvars, evars>>

\* the cleanup of the unmount effect, and of the interval effect
Unmount ==
  /\ mounted
  /\ mounted' = FALSE
  /\ sources' = IF sourceRef # 0 /\ ~PauseThrows
                THEN Disconnected(StopNode(sources, sourceRef), sourceRef)
                ELSE sources
  /\ ctx' = IF ctx = "running" THEN "closed" ELSE ctx
  /\ lastOp' = Op("unmount")
  /\ UNCHANGED <<isPlaying, currentTime, sourceRef, startTimeRef, pauseTimeRef, timers>>
  /\ UNCHANGED_Load
  /\ UNCHANGED_Gain
  /\ PlayingEffects
  /\ UNCHANGED <<vvars, evars, player>>

\* MusicPlayer is unmounted: the cleanup of its playing effect is the only
\* cleanup the component has
UnmountPlayer ==
  /\ mounted
  /\ mounted' = FALSE
  /\ lastOp' = Op("unmountPlayer")
  /\ UNCHANGED <<isPlaying, currentTime, ctx, sourceRef, startTimeRef, pauseTimeRef,
                 sources, timers>>
  /\ UNCHANGED_Load
  /\ UNCHANGED_Gain
  /\ PlayingEffects
  /\ UNCHANGED <<vvars, evars, player>>

----------------------------------------------------------------------------
(* Capture session *)

Devices == 1..NumDevices
StreamIds == 1..MaxStreams

\* the accessors refreshTrackInfo() probes with typeof ... === "function"
Accessors == {"getCapabilities", "getConstraints", "getSettings"}

\* browsers: all three accessors, or one of them missing
Browsers == {Accessors} \cup {Accessors \ {a} : a \in Accessors}

\* the ranges getCapabilities() of a track of device d reports, of those the
\* component looks at: a plain webcam, a camera with zoom and focus, one with zoom
DeviceCaps(d) ==
  IF d = 1 THEN {}
  ELSE IF d = 2 THEN {"zoom", "focusDistance"}
  ELSE {"zoom"}

\* the contents of the text inputs of the constraint form
FieldTexts == {"", "abc", "0", "-5", "640"}
ResizeModes == {"", "none"}
TextFields == {"width", "height", "aspectRatio"}
EmptyForm == [width |-> "", height |-> "", aspectRatio |-> "", resizeMode |-> ""]
FullForm == [width |-> "640", height |-> "640", aspectRatio |-> "640",
             resizeMode |-> "none"]

\* the forms submitted: blank, one input filled in (with each text), all filled in
Forms ==
  {EmptyForm, FullForm, [EmptyForm EXCEPT !.resizeMode = "none"]}
    \cup {[EmptyForm EXCEPT ![f] = t] : f \in TextFields, t \in FieldTexts \ {""}}

NoStream == [dev |-> 0, live |-> FALSE, cons |-> {}]

\* null, for the three track snapshots
NullCapabilities == [strm |-> 0, caps |-> {}]
NullConstraints == [strm |-> 0, cons |-> {}]

\* a pending call: its kind, the device and the stream it is about, the
\* selectedCameraId and the request of its closure; over (history) is the
\* stream of the latest startCamera issued after this one that has completed
NoCall ==
  [kind |-> "none", dev |-> 0, sel |-> 0, strm |-> 0, req |-> {}, over |-> 0]

VOp(name, arg) == [op |-> name, arg |-> arg, form |-> EmptyForm, n |-> 1 - lastV.n]

VDone(name, arg) == [op |-> name, arg |-> arg, form |-> EmptyForm, n |-> lastV.n]

\* the state after the first render and its effects: enumerateCameras() is
\* awaiting enumerateDevices(), refreshTrackInfo() has found no track
InitCapture ==
  /\ stream = 0
  /\ isStreaming = FALSE
  /\ error = "null"
  /\ cameras = <<>>
  /\ selectedCameraId = 0
  /\ trackCapabilities = NullCapabilities
  /\ trackConstraints = NullConstraints
  /\ trackSettings = NullConstraints
  /\ streams = [s \in StreamIds |-> NoStream]
  /\ calls = <<[NoCall EXCEPT !.kind = "enum"]>>
  /\ accessors \in Browsers
  /\ present = Devices
  /\ lastV = [op |-> "init", arg |-> 0, form |-> EmptyForm, n |-> 0]

\* a faulty StopTracks, which stops nothing; C5 fails with it
StopTracksNone(strms, s) == strms

\* stream.getTracks().forEach((track) => track.stop()), guarded by if (stream)
StopTracks(strms, s) == IF s = 0 THEN strms ELSE [strms EXCEPT ![s].live = FALSE]

\* the three values refreshTrackInfo() stores when its closure holds stream s
CapabilitiesOf(strms, s) ==
  IF s = 0 \/ "getCapabilities" \notin accessors THEN NullCapabilities
  ELSE [strm |-> s, caps |-> DeviceCaps(strms[s].dev)]

ConstraintsOf(strms, s) ==
  IF s = 0 \/ "getConstraints" \notin accessors THEN NullConstraints
  ELSE [strm |-> s, cons |-> strms[s].cons]

\* a faulty SettingsOf, which gives up when getConstraints is missing; C28 fails
\* with it
SettingsOfAfterConstraints(strms, s) ==
  IF s = 0 \/ "getSettings" \notin accessors \/ "getConstraints" \notin accessors
  THEN NullConstraints
  ELSE [strm |-> s, cons |-> strms[s].cons]

SettingsOf(strms, s) ==
  IF s = 0 \/ "getSettings" \notin accessors THEN NullConstraints
  ELSE [strm |-> s, cons |-> strms[s].cons]

\* a session whose refresh effect does not run
RefreshTrackInfoSkipped(strms, s) ==
  UNCHANGED <<trackCapabilities, trackConstraints, trackSettings>>

\* refreshTrackInfo() of a render whose stream is s
RefreshTrackInfoFrom(strms, s) ==
  /\ trackCapabilities' = CapabilitiesOf(strms, s)
  /\ trackConstraints' = ConstraintsOf(strms, s)
  /\ trackSettings' = SettingsOf(strms, s)

\* the call startCamera(cameraId) leaves pending at getUserMedia; the
\* enumerateCameras it will call is the one of the render it was created in
GumCall(cameraId) ==
  [NoCall EXCEPT !.kind = "gum", !.dev = cameraId, !.sel = selectedCameraId]

\* enumerateCameras() of a render whose selectedCameraId is sel
EnumCall(sel) == [NoCall EXCEPT !.kind = "enum", !.sel = sel]

\* the Start button: startCamera(selectedCameraId || undefined) up to its await
StartCamera ==
  /\ ~isStreaming
  /\ Len(calls) < MaxCalls
  /\ error' = "null"
  /\ streams' = StopTracks(streams, stream)
  /\ calls' = Append(calls, GumCall(selectedCameraId))
  /\ lastV' = VOp("start", selectedCameraId)
  /\ UNCHANGED <<stream, isStreaming, cameras, selectedCameraId,
                 trackCapabilities, trackConstraints, trackSettings, accessors, present>>
  /\ UNCHANGED <<avars, evars, player>>

\* the camera select: switchCamera(cameraId), and the enumerate effect that
\* runs when selectedCameraId has changed
SwitchCamera(cameraId) ==
  LET started == IF isStreaming THEN <<GumCall(cameraId)>> ELSE <<>>
      effect == IF cameraId # selectedCameraId THEN <<EnumCall(cameraId)>> ELSE <<>>
  IN
  /\ \E i \in 1..Len(cameras) : cameras[i] = cameraId
  /\ Len(calls) + Len(started) + Len(effect) <= MaxCalls
  /\ selectedCameraId' = cameraId
  /\ error' = IF isStreaming THEN "null" ELSE error
  /\ streams' = IF isStreaming THEN StopTracks(streams, stream) ELSE streams
  /\ calls' = calls \o started \o effect
  /\ lastV' = VOp(IF isStreaming THEN "switch" ELSE "select", cameraId)
  /\ UNCHANGED <<stream, isStreaming, cameras,
                 trackCapabilities, trackConstraints, trackSettings, accessors, present>>
  /\ UNCHANGED <<avars, evars, player>>

UnusedStreams == {s \in StreamIds : streams[s].dev = 0}

\* the MediaStream a resolving getUserMedia returns: a new one
NewStream == CHOOSE s \in UnusedStreams : \A u \in UnusedStreams : s <= u

\* the platform grants the i-th pending getUserMedia: it opens device d and
\* resolves the promise with a new stream, whose track is live
GumOpen(i, d) ==
  LET c == calls[i] IN
  /\ i \in 1..Len(calls)
  /\ c.kind = "gum"
  /\ d \in present
  /\ c.dev # 0 => d = c.dev
  /\ UnusedStreams # {}
  /\ streams' = [streams EXCEPT ![NewStream] =
                   [dev |-> d, live |-> TRUE,
                    cons |-> IF c.dev # 0 THEN {"deviceId"} ELSE {"facingMode"}]]
  /\ calls' = [calls EXCEPT ![i].kind = "opened", ![i].strm = NewStream]
  /\ UNCHANGED <<stream, isStreaming, error, cameras, selectedCameraId,
                 trackCapabilities, trackConstraints, trackSettings,
                 accessors, present, lastV>>
  /\ UNCHANGED <<avars, evars, player>>

\* the calls before the i-th that still await their stream or its adoption
EarlierStarts(i) == {j \in 1..(i - 1) : calls[j].kind \in {"gum", "opened"}}

\* startCamera resumes with the stream of the i-th call: setStream,
\* setIsStreaming(true); at the commit the cleanup of the stream effect stops
\* the tracks of the stream it replaces and the refresh effect reads the new
\* track; startCamera goes on to enumerateCameras()
GumResolve(i) ==
  LET c == calls[i]
      adopted == StopTracks(streams, stream)
  IN
  /\ i \in 1..Len(calls)
  /\ c.kind = "opened"
  /\ stream' = c.strm
  /\ isStreaming' = TRUE
  /\ streams' = adopted
  /\ RefreshTrackInfoFrom(adopted, c.strm)
  /\ calls' = [j \in 1..Len(calls) |->
                 IF j = i THEN EnumCall(c.sel)
                 ELSE IF j \in EarlierStarts(i) /\ c.over = 0
                 THEN [calls[j] EXCEPT !.over = c.strm]
                 ELSE calls[j]]
  /\ lastV' = VDone(IF c.over # 0 THEN "startedLate" ELSE "started", c.dev)
  /\ UNCHANGED <<error, cameras, selectedCameraId, accessors, present>>
  /\ UNCHANGED <<avars, evars, player>>

RemoveCall(i) == SubSeq(calls, 1, i - 1) \o SubSeq(calls, i + 1, Len(calls))

\* getUserMedia of the i-th pending call rejects: the catch block of startCamera
GumReject(i) ==
  /\ i \in 1..Len(calls)
  /\ calls[i].kind = "gum"
  /\ error' = "getUserMedia"
  /\ calls' = RemoveCall(i)
  /\ lastV' = VDone("startFailed", calls[i].dev)
  /\ UNCHANGED <<stream, isStreaming, cameras, selectedCameraId,
                 trackCapabilities, trackConstraints, trackSettings, streams, accessors, present>>
  /\ UNCHANGED <<avars, evars, player>>

\* the videoinput devices enumerateDevices() lists, in its order
VideoDevices ==
  [i \in 1..Cardinality(present) |->
     CHOOSE d \in present : Cardinality({e \in present : e < d}) = i - 1]

\* a camera is unplugged: it is no longer listed and its tracks end
Unplug(d) ==
  /\ d \in present
  /\ present' = present \ {d}
  /\ streams' = [s \in StreamIds |->
                   IF streams[s].dev = d THEN [streams[s] EXCEPT !.live = FALSE]
                   ELSE streams[s]]
  /\ UNCHANGED <<stream, isStreaming, error, cameras, selectedCameraId,
                 trackCapabilities, trackConstraints, trackSettings,
                 calls, accessors, lastV>>
  /\ UNCHANGED <<avars, evars, player>>

\* enumerateDevices of the i-th pending call resolves: setCameras, and the
\* first camera is selected when the closure saw none selected; a changed
\* selection runs the enumerate effect again
EnumResolve(i) ==
  LET c == calls[i]
      selected == IF Len(VideoDevices) > 0 /\ c.sel = 0
                  THEN VideoDevices[1] ELSE selectedCameraId
  IN
  /\ i \in 1..Len(calls)
  /\ c.kind = "enum"
  /\ cameras' = VideoDevices
  /\ selectedCameraId' = selected
  /\ calls' = IF selected # selectedCameraId
              THEN [calls EXCEPT ![i] = EnumCall(selected)]
              ELSE RemoveCall(i)
  /\ UNCHANGED <<stream, isStreaming, error, trackCapabilities, trackConstraints,
                 trackSettings, streams, accessors, present, lastV>>
  /\ UNCHANGED <<avars, evars, player>>

\* stopCamera(), and the refresh effect of the commit
\* a faulty StreamingAfterStop, which forgets the flag; C31 fails with it
StreamingAfterStopKept == isStreaming

\* setIsStreaming(false) of stopCamera
StreamingAfterStop == FALSE

StopCamera ==
  /\ IF stream # 0
     THEN /\ streams' = StopTracks(streams, stream)
          /\ stream' = 0
          /\ isStreaming' = StreamingAfterStop
          /\ RefreshTrackInfoFrom(streams', 0)
     ELSE UNCHANGED <<streams, stream, isStreaming,
                      trackCapabilities, trackConstraints, trackSettings>>
  /\ lastV' = VOp("stop", stream)
  /\ UNCHANGED <<error, cameras, selectedCameraId, calls, accessors, present>>
  /\ UNCHANGED <<avars, evars, player>>

\* the Refresh button: refreshTrackInfo() of the current render
RefreshTrackInfo ==
  /\ RefreshTrackInfoFrom(streams, stream)
  /\ lastV' = VOp("refresh", 0)
  /\ UNCHANGED <<stream, isStreaming, error, cameras, selectedCameraId,
                 streams, calls, accessors, present>>
  /\ UNCHANGED <<avars, evars, player>>

\* enumerateDevices of the i-th pending call rejects: the catch block only logs
EnumReject(i) ==
  /\ i \in 1..Len(calls)
  /\ calls[i].kind = "enum"
  /\ calls' = RemoveCall(i)
  /\ UNCHANGED <<stream, isStreaming, error, cameras, selectedCameraId,
                 trackCapabilities, trackConstraints, trackSettings, streams,
                 accessors, present, lastV>>
  /\ UNCHANGED <<avars, evars, player>>

\* Number(text), for the texts of the form
NumberOf(text) ==
  IF text = "640" THEN [nan |-> FALSE, val |-> 640]
  ELSE IF text = "-5" THEN [nan |-> FALSE, val |-> -5]
  ELSE IF text \in {"", "0"} THEN [nan |-> FALSE, val |-> 0]
  ELSE [nan |-> TRUE, val |-> 0]

\* the test applyCustomConstraints makes on width, height and aspectRatio
ValidNumber(text) ==
  /\ text # ""
  /\ ~NumberOf(text).nan
  /\ NumberOf(text).val > 0

\* trackCapabilities?.zoom, trackCapabilities?.focusDistance
HasCapability(name) == trackCapabilities.strm # 0 /\ name \in trackCapabilities.caps

\* the keys of the constraints object applyCustomConstraints builds
BuildConstraints(form) ==
  {f \in TextFields : ValidNumber(form[f])}
    \cup (IF form.resizeMode # "" THEN {"resizeMode"} ELSE {})
    \cup {f \in {"zoom", "focusDistance"} : HasCapability(f)}

\* a faulty EmptyRequest, which lets an empty request through; C8 fails with it
EmptyRequestNever(req) == FALSE

\* Object.keys(constraints).length === 0
EmptyRequest(req) == req = {}

\* videoTrack.applyConstraints(req) on the track of the current stream
ApplyCall(req) == [NoCall EXCEPT !.kind = "apply", !.strm = stream, !.req = req]

\* the inputs of the form that are not blank
Filled(form) == {f \in DOMAIN form : form[f] # ""}

\* the Apply button: applyCustomConstraints() up to its await
ApplyCustomConstraints(form) ==
  /\ isStreaming
  /\ IF stream = 0 \/ EmptyRequest(BuildConstraints(form))
     THEN UNCHANGED calls
     ELSE /\ Len(calls) < MaxCalls
          /\ calls' = Append(calls, ApplyCall(BuildConstraints(form)))
  /\ lastV' = [VOp("apply", 0) EXCEPT !.form = form]
  /\ UNCHANGED <<stream, isStreaming, error, cameras, selectedCameraId,
                 trackCapabilities, trackConstraints, trackSettings, streams,
                 accessors, present>>
  /\ UNCHANGED <<avars, evars, player>>

\* a slider is released: applyZoomConstraint / applyFocusConstraint up to the
\* await; the slider is rendered when the snapshot reports the range
ApplyRangeConstraint(name) ==
  /\ isStreaming
  /\ HasCapability(name)
  /\ IF stream = 0
     THEN UNCHANGED calls
     ELSE /\ Len(calls) < MaxCalls
          /\ calls' = Append(calls, ApplyCall({name}))
  /\ lastV' = VOp(name, 0)
  /\ UNCHANGED <<stream, isStreaming, error, cameras, selectedCameraId,
                 trackCapabilities, trackConstraints, trackSettings, streams,
                 accessors, present>>
  /\ UNCHANGED <<avars, evars, player>>

ApplyZoomConstraint == ApplyRangeConstraint("zoom")

ApplyFocusConstraint == ApplyRangeConstraint("focusDistance")

\* applyConstraints of the i-th pending call resolves: a live track has the new
\* constraints (an ended one is left as it is), and the refreshTrackInfo() of
\* the calling render runs
ApplyResolve(i) ==
  LET c == calls[i]
      applied == IF streams[c.strm].live
                 THEN [streams EXCEPT ![c.strm].cons = c.req] ELSE streams
  IN
  /\ i \in 1..Len(calls)
  /\ c.kind = "apply"
  /\ streams' = applied
  /\ RefreshTrackInfoFrom(applied, c.strm)
  /\ calls' = RemoveCall(i)
  /\ lastV' = VDone("applied", 0)
  /\ UNCHANGED <<stream, isStreaming, error, cameras, selectedCameraId, accessors, present>>
  /\ UNCHANGED <<avars, evars, player>>

\* applyConstraints of the i-th pending call rejects: the catch block
ApplyReject(i) ==
  /\ i \in 1..Len(calls)
  /\ calls[i].kind = "apply"
  /\ error' = "applyConstraints"
  /\ calls' = RemoveCall(i)
  /\ lastV' = VDone("applyFailed", 0)
  /\ UNCHANGED <<stream, isStreaming, cameras, selectedCameraId,
                 trackCapabilities, trackConstraints, trackSettings, streams, accessors, present>>
  /\ UNCHANGED <<avars, evars, player>>

----------------------------------------------------------------------------
(* Specifications *)

\* The whole playback session, from construction, with one seek target that
\* lies inside every clip.
\* enumerateCameras' list, as far as the session machines look at it, is the
\* cameras variable; the labelled list is studied on its own in ListSpec
NoEnumeration == devices = <<>> /\ videoDevices = <<>>

Init == InitAudio /\ InitCapture /\ accessors = Accessors /\ NoEnumeration

Next ==
  \/ Play
  \/ Pause
  \/ \E t \in {1} : Seek(t)
  \/ TogglePlayPause
  \/ Restart
  \/ \E s \in SourceIds : OnEnded(s)
  \/ UpdateTime
  \/ DrawVisualizer
  \/ Tick
  \/ \E u \in {0} \cup Clips : LoadUrl(u)
  \/ \E i \in 1..MaxLoads : LoadResolve(i)
  \/ \E i \in 1..MaxLoads : LoadReject(i)
  \/ Unmount

Spec == Init /\ [][Next]_vars

TeardownNext ==
  \/ Play
  \/ Pause
  \/ \E t \in SeekArgs : Seek(t)
  \/ TogglePlayPause
  \/ Restart
  \/ \E s \in SourceIds : OnEnded(s)
  \/ UpdateTime
  \/ DrawVisualizer
  \/ Tick
  \/ Unmount
  \/ UnmountPlayer

\* The play/pause/seek machine on a loaded clip: it starts in the states Spec
\* reaches by loadUrl(c) and its completion, and takes every seek target.
LoadedSession(c) ==
  /\ isPlaying = FALSE
  /\ currentTime = 0
  /\ duration = ClipDuration(c)
  /\ fileName = c
  /\ isLoaded = TRUE
  /\ isLoadingUrl = FALSE
  /\ ctx = "running"
  /\ audioBufferRef = c
  /\ sourceRef = 0
  /\ startTimeRef = 0
  /\ pauseTimeRef = 0
  /\ sources = [s \in SourceIds |-> NoSource]
  /\ timers = <<>>
  /\ loads = <<>>
  /\ mounted = TRUE
  /\ lastOp = [op |-> "loaded", arg |-> 0, n |-> 0]
  /\ volume = InitialVolume
  /\ gain = InitialVolume
  /\ intervals = 0
  /\ frames = 0
  /\ animationFrameRef = 0
  /\ InitCapture
  /\ accessors = Accessors
  /\ NoEnumeration

LoadedInit == \E c \in Clips : LoadedSession(c) /\ player = NoPlayer

PlaybackNext ==
  \/ Play
  \/ Pause
  \/ \E t \in SeekArgs : Seek(t)
  \/ TogglePlayPause
  \/ Restart
  \/ \E s \in SourceIds : OnEnded(s)
  \/ UpdateTime
  \/ DrawVisualizer
  \/ Tick

PlaybackSpec == LoadedInit /\ [][PlaybackNext]_vars

\* The same machine with the teardown of either component that owns a session
TeardownSpec == LoadedInit /\ [][TeardownNext]_vars

\* PlaybackSpec with the scheduling the platform gives: the audio clock keeps
\* running, the interval keeps firing while it is set, queued ended events
\* and due timeouts are delivered.
FairPlaybackSpec ==
  /\ PlaybackSpec
  /\ WF_vars(Tick)
  /\ WF_vars(UpdateTime)
  /\ WF_vars(\E s \in SourceIds : OnEnded(s))
  /\ WF_vars(Restart)

\* The life cycle of the capture session, from the first render of the
\* component: enumerate, start, switch, stop, refresh.
CaptureInit == InitCapture /\ InitAudio /\ NoEnumeration

CaptureNext ==
  \/ StartCamera
  \/ \E d \in Devices : SwitchCamera(d)
  \/ \E i \in 1..MaxCalls, d \in Devices : GumOpen(i, d)
  \/ \E i \in 1..MaxCalls : GumResolve(i)
  \/ \E i \in 1..MaxCalls : GumReject(i)
  \/ \E i \in 1..MaxCalls : EnumResolve(i)
  \/ \E i \in 1..MaxCalls : EnumReject(i)
  \/ StopCamera
  \/ RefreshTrackInfo

CaptureSpec == CaptureInit /\ [][CaptureNext]_vars

\* The operations on the device list and the selection (enumeration, start,
\* switch, stop) while cameras are being unplugged.
DeviceNext ==
  \/ StartCamera
  \/ \E cameraId \in Devices : SwitchCamera(cameraId)
  \/ \E i \in 1..MaxCalls, d \in Devices : GumOpen(i, d)
  \/ \E i \in 1..MaxCalls : GumResolve(i)
  \/ \E i \in 1..MaxCalls : GumReject(i)
  \/ \E i \in 1..MaxCalls : EnumResolve(i)
  \/ StopCamera
  \/ \E d \in Devices : Unplug(d)

DeviceSpec == CaptureInit /\ [][DeviceNext]_vars

\* A live capture session: the states CaptureSpec reaches when a camera has
\* been selected and started, and every pending call has completed.
LiveInit ==
  \E d \in Devices :
    LET opened == [s \in StreamIds |->
                     IF s = 1 THEN [dev |-> d, live |-> TRUE, cons |-> {"deviceId"}]
                     ELSE NoStream]
    IN
    /\ accessors \in Browsers
    /\ present = Devices
    /\ stream = 1
    /\ isStreaming = TRUE
    /\ error = "null"
    /\ cameras = VideoDevices
    /\ selectedCameraId = d
    /\ streams = opened
    /\ trackCapabilities = CapabilitiesOf(opened, 1)
    /\ trackConstraints = ConstraintsOf(opened, 1)
    /\ trackSettings = SettingsOf(opened, 1)
    /\ calls = <<>>
    /\ lastV = [op |-> "started", arg |-> d, form |-> EmptyForm, n |-> 0]
    /\ InitAudio
    /\ NoEnumeration

\* The constraint form on a live session, until the camera is stopped.
ConstraintNext ==
  \/ \E form \in Forms : ApplyCustomConstraints(form)
  \/ ApplyZoomConstraint
  \/ ApplyFocusConstraint
  \/ \E i \in 1..MaxCalls : ApplyResolve(i)
  \/ \E i \in 1..MaxCalls : ApplyReject(i)
  \/ RefreshTrackInfo
  \/ StopCamera

ConstraintSpec == LiveInit /\ [][ConstraintNext]_vars

\* Loading, with a second loadUrl issued while the first is in flight, beside
\* play, pause and teardown.
OverlapNext ==
  \/ \E u \in {0} \cup Clips : LoadUrlOverlapping(u)
  \/ \E i \in 1..MaxOverlap : LoadResolve(i)
  \/ \E i \in 1..MaxOverlap : LoadReject(i)
  \/ Play
  \/ Pause
  \/ Tick
  \/ Unmount

OverlapSpec == Init /\ [][OverlapNext]_vars

\* The hook and a MusicPlayer side by side, both with the same clip loaded:
\* every call, timer and clock tick goes to both.
TwinInit == \E c \in Clips : LoadedSession(c) /\ player = LoadedPlayer(c)

TwinNext ==
  \/ Play
  \/ Pause
  \/ \E t \in SeekArgs : Seek(t)
  \/ \E v \in VolumeArgs : SetVolume(v)
  \/ Restart
  \/ \E s \in SourceIds : OnEnded(s)
  \/ UpdateTime
  \/ Tick

TwinSpec == TwinInit /\ [][TwinNext]_vars

\* The volume control, from construction, beside load, play and pause.
VolumeNext ==
  \/ \E v \in VolumeArgs : SetVolume(v)
  \/ \E u \in Clips : LoadUrl(u)
  \/ \E i \in 1..MaxLoads : LoadResolve(i)
  \/ Play
  \/ Pause
  \/ Tick

VolumeSpec == Init /\ [][VolumeNext]_vars

\* Constraint application across stop, start and switch: the session is live
\* on a browser with all three accessors, the zoom slider is used and the
\* form is submitted blank, and every platform call succeeds.
RenegotiateInit == LiveInit /\ accessors = Accessors

RenegotiateNext ==
  \/ StartCamera
  \/ \E d \in Devices : SwitchCamera(d)
  \/ \E i \in 1..MaxCalls, d \in Devices : GumOpen(i, d)
  \/ \E i \in 1..MaxCalls : GumResolve(i)
  \/ \E i \in 1..MaxCalls : EnumResolve(i)
  \/ StopCamera
  \/ ApplyCustomConstraints(EmptyForm)
  \/ ApplyZoomConstraint
  \/ \E i \in 1..MaxCalls : ApplyResolve(i)

RenegotiateSpec == RenegotiateInit /\ [][RenegotiateNext]_vars

----------------------------------------------------------------------------
(* enumerateCameras as a function of the platform's device list *)

MaxDevices == 3

DeviceKinds == {"videoinput", "audioinput", "audiooutput"}

\* a label is a text; the template `Camera ${index + 1}` keeps its number apart
PlatformLabels == {[text |-> "", n |-> 0], [text |-> "HD Webcam", n |-> 0]}

\* what enumerateDevices() can resolve with: up to MaxDevices devices with
\* distinct ids, in any order, of any kind, labelled or not
DeviceLists ==
  UNION {{l \in [1..k -> [deviceId : 1..k, kind : DeviceKinds, label : PlatformLabels]] :
            \A i, j \in 1..k : i # j => l[i].deviceId # l[j].deviceId} :
         k \in 0..MaxDevices}

IsVideoInput(device) == device.kind = "videoinput"

\* a faulty VideoInputs, which keeps every device; C29 fails with it
VideoInputsUnfiltered(devs) == devs

\* devices.filter((device) => device.kind === "videoinput")
VideoInputs(devs) == SelectSeq(devs, IsVideoInput)

\* device.label || `Camera ${index + 1}`, index counting from 0
LabelOr(label, index) ==
  IF label.text # "" THEN label ELSE [text |-> "Camera", n |-> index + 1]

\* the .map(...) of enumerateCameras over the filtered list
ListCameras(devs) ==
  LET video == VideoInputs(devs) IN
  [k \in 1..Len(video) |->
     [deviceId |-> video[k].deviceId, label |-> LabelOr(video[k].label, k - 1)]]

\* enumerateCameras() up to setCameras(videoDevices)
EnumerateCameras ==
  /\ videoDevices' = ListCameras(devices)
  /\ UNCHANGED <<devices, avars, vvars, player>>

ListInit ==
  /\ InitAudio
  /\ InitCapture
  /\ accessors = Accessors
  /\ devices \in DeviceLists
  /\ videoDevices = <<>>

ListNext == EnumerateCameras

ListSpec == ListInit /\ [][ListNext]_vars

----------------------------------------------------------------------------
(* The claims *)

\* x limited to [lo, hi]
Clamped(x, lo, hi) == IF x < lo THEN lo ELSE IF x > hi THEN hi ELSE x

\* a control operation is invoked in this step
ControlStep == lastOp'.n # lastOp.n

\* C1: seek(t) while playing, t in [0, duration]: when the deferred play of
\* that seek runs (no other operation in between), playback resumes at t:
\* the new source starts at offset t and startTimeRef = currentTime - t.
C1_SeekWhilePlayingResumesAtTarget ==
  [][(lastOp.op = "seekPlaying" /\ lastOp.arg \in 0..duration /\ lastOp'.op = "restart")
       => /\ isPlaying'
          /\ startTimeRef' = now - lastOp.arg
          /\ sources'[sourceRef'].endAt = now + duration - lastOp.arg]_vars

\* C2: play() called again right after play(), with no pause() in between, is
\* a no-op: the source handle is the same and exactly one source is started.
C2_PlayTwiceIsIdempotent ==
  [][(isPlaying /\ lastOp.op \in {"play", "resume"} /\ ControlStep /\ lastOp'.op = "play")
       => /\ isPlaying'
          /\ sourceRef' = sourceRef
          /\ Cardinality({s \in SourceIds : sources'[s].st = "playing"}) = 1]_vars

\* C3: a source handle exists iff isPlaying; in particular, whenever playback
\* stops (by pause, by reaching the end, by a load) the handle is released.
C3_HandleReleasedWhenPlaybackStops ==
  [][(isPlaying /\ ~isPlaying') => sourceRef' = 0]_vars

\* C4: after any sequence of seek, play and pause on a loaded session,
\* 0 <= playbackOffset <= duration.
C4_OffsetWithinClip == pauseTimeRef \in 0..duration

\* C6: once playback is within 0.1 s of the end of the media, and unless a
\* control operation is invoked, the session eventually is stopped with
\* isPlaying = false and playbackOffset = 0.
C6_EndOfMediaStopsAtZero ==
  \A b \in {0, 1} :
    (isPlaying /\ Elapsed >= duration - Epsilon /\ lastOp.n = b)
      ~> ((~isPlaying /\ pauseTimeRef = 0) \/ lastOp.n # b)

C6_Witness ==
  /\ lastOp.op = "timeUp"
  /\ ~isPlaying
  /\ pauseTimeRef = 0
  /\ sourceRef # 0
  /\ sources[sourceRef].st = "ended"

\* C7: pause() while playing at position p stores p clamped to [0, duration],
\* and a play() that follows it resumes there: isPlaying is true and the
\* reported position, currentTime - startTimeRef, is that stored offset.
C7_PauseThenPlayResumes ==
  [][/\ (ControlStep /\ lastOp'.op = "pausePlaying")
          => /\ ~isPlaying'
             /\ pauseTimeRef' = Clamped(Elapsed, 0, duration)
     /\ (lastOp.op = "pausePlaying" /\ ControlStep /\ lastOp'.op = "resume")
          => /\ isPlaying'
             /\ Elapsed' = Clamped(lastOp.arg, 0, duration)
             /\ sources'[sourceRef'].st \in {"playing", "ended"}
             /\ sources'[sourceRef'].st = "playing"
                  => sources'[sourceRef'].endAt = now + duration - Elapsed']_vars

C7_Witness ==
  /\ lastOp.op = "resume"
  /\ isPlaying
  /\ Elapsed > 0
  /\ Elapsed < duration
  /\ sourceRef # 0
  /\ sources[sourceRef].st = "playing"
  /\ sources[sourceRef].endAt = now + duration - Elapsed

\* C10: a successful load, in any prior state, leaves isPlaying false,
\* playbackOffset 0, the new clip and its duration in place, and no source
\* that is still started.
C10_LoadReplacesAndStops ==
  [][(mounted /\ ControlStep /\ lastOp'.op = "loaded")
       => /\ ~isPlaying'
          /\ pauseTimeRef' = 0
          /\ audioBufferRef' # 0
          /\ duration' = ClipDuration(audioBufferRef')
          /\ sourceRef' = 0
          /\ \A s \in SourceIds : sources'[s].st # "playing"]_vars

\* C5: once a start has completed and no acquired stream awaits its adoption,
\* the only stream with running tracks is the active one, and it is bound to
\* the device that start asked for: after start(A) and then start(B) without
\* a stop in between, every track of the stream of A has been stopped and
\* exactly one stream, of B, is active.
C5_RestartLeavesOneStream ==
  /\ (\A i \in 1..Len(calls) : calls[i].kind # "opened")
       => \A s \in StreamIds : streams[s].live => s = stream
  /\ lastV.op = "started"
       => /\ isStreaming
          /\ stream # 0
          /\ streams[stream].live
          /\ lastV.arg # 0 => streams[stream].dev = lastV.arg

C5_Witness ==
  /\ lastV.op = "started"
  /\ lastV.arg = 2
  /\ stream = 2
  /\ streams[1].dev = 1
  /\ ~streams[1].live
  /\ streams[2].dev = 2
  /\ streams[2].live

\* the form is submitted blank on a live stream in this step
BlankApplyStep ==
  /\ lastV'.n # lastV.n
  /\ lastV'.op = "apply"
  /\ Filled(lastV'.form) = {}
  /\ stream # 0
  /\ streams[stream].live

\* nothing is sent to the track and nothing the session shows changes
ApplyIsNoOp ==
  UNCHANGED <<calls, streams, stream, isStreaming, error,
              trackCapabilities, trackConstraints, trackSettings>>

\* C8, as stated: applyConstraint with width, height, aspectRatio and
\* resizeMode all empty, on a live stream whatever its capabilities, calls no
\* applyConstraints and leaves the snapshots unchanged.
C8_BlankApplyIsNoOp == [][BlankApplyStep => ApplyIsNoOp]_vars

\* C8, amended: the same, on a live stream whose capabilities snapshot
\* reports neither a zoom nor a focusDistance range.
C8_BlankApplyIsNoOpWithoutRanges ==
  [][(BlankApplyStep /\ ~HasCapability("zoom") /\ ~HasCapability("focusDistance"))
       => ApplyIsNoOp]_vars

C8_Witness ==
  /\ lastV.op = "apply"
  /\ Filled(lastV.form) = {}
  /\ isStreaming
  /\ stream # 0
  /\ streams[stream].live
  /\ ~HasCapability("zoom")
  /\ ~HasCapability("focusDistance")
  /\ calls = <<>>
  /\ trackSettings.strm = stream
  /\ trackSettings.cons = {"width"}

\* C9: when a start has failed, the error is recorded and the session does
\* not report isStreaming = true with a stream none of whose tracks is live.
C9_FailedStartLeavesNoDeadStream ==
  lastV.op = "startFailed"
    => /\ error # "null"
       /\ ~(isStreaming /\ stream # 0 /\ ~streams[stream].live)

\* the operations whose exception reaches the caller: start() and stop() throwing
\* inside play() and pause(), and loadUrl's catch block throwing its own error
Threw ==
  lastOp.op \in {"playThrew", "pauseThrew", "seekThrew", "togglePauseThrew",
                 "togglePlayThrew", "loadFailed"}

\* C11: a load that fails is recovered by the session: the caller of loadUrl
\* gets no exception or rejection from it.
C11_FailedLoadIsNotPropagated == lastOp.op = "loadFailed" => ~Threw

\* C12: play() then pause() after s ticks gives playbackOffset s; seek(t) while
\* paused, t in [0, duration], sets playbackOffset to t and touches neither
\* isPlaying nor any source; the play() after it reports elapsed time from t on;
\* while a started source plays, what is left of it is duration - elapsed, and
\* the stop happens when elapsed has reached duration.
C12_PauseSeekPlayScenario ==
  [][/\ (ControlStep /\ lastOp'.op = "pausePlaying" /\ Elapsed \in 0..duration)
          => pauseTimeRef' = Elapsed
     /\ (ControlStep /\ lastOp'.op = "seek" /\ lastOp'.arg \in 0..duration)
          => /\ pauseTimeRef' = lastOp'.arg
             /\ UNCHANGED <<isPlaying, sourceRef, sources>>
     /\ (lastOp.op = "seek" /\ lastOp.arg \in 0..duration
           /\ ControlStep /\ lastOp'.op = "play")
          => /\ isPlaying'
             /\ Elapsed' = lastOp.arg
             /\ sources'[sourceRef'].st =
                  (IF lastOp.arg < duration THEN "playing" ELSE "ended")
     /\ (isPlaying' /\ sourceRef' # 0 /\ sources'[sourceRef'].st = "playing")
          => sources'[sourceRef'].endAt = now + duration - Elapsed'
     /\ (isPlaying /\ lastOp'.op = "timeUp" /\ lastOp.op # "timeUp")
          => /\ Elapsed >= duration
             /\ ~isPlaying'
             /\ pauseTimeRef' = 0]_vars

\* a play that started at offset 1 of the longest clip has run to its last tick
C12_Witness ==
  /\ lastOp.op = "play"
  /\ isPlaying
  /\ duration = MaxDuration
  /\ pauseTimeRef = 1
  /\ Elapsed = duration - 1
  /\ sourceRef # 0
  /\ sources[sourceRef].st = "playing"
  /\ sources[sourceRef].endAt = now + 1

\* C13: pause() while not playing changes nothing: playbackOffset, the anchor
\* startTimeRef, isPlaying and the source handle are as before.
C13_PauseWhenNotPlayingIsNoOp ==
  [][(~isPlaying /\ ControlStep /\ lastOp'.op = "pause")
       => UNCHANGED <<pauseTimeRef, startTimeRef, isPlaying, sourceRef>>]_vars
\* startCamera resumes in this step with the stream of the i-th call
Adopts(i) ==
  /\ i \in 1..Len(calls)
  /\ calls[i].kind = "opened"
  /\ Len(calls') = Len(calls)
  /\ calls'[i].kind = "enum"

\* C14: of two overlapping starts the later one wins whatever the order in
\* which they complete: when the earlier start completes while the stream of
\* the later one is active and live, that stream stays the active, live one
\* and the tracks of the stream the earlier start acquired are stopped.
C14_LaterStartSupersedes ==
  [][\A i \in 1..MaxCalls :
       (/\ Adopts(i)
        /\ calls[i].over # 0
        /\ stream = calls[i].over
        /\ streams[stream].live)
         => /\ stream' = stream
            /\ streams'[stream].live
            /\ ~streams'[calls[i].strm].live]_vars

\* the streams that hold the camera: those with a track not yet stopped
LiveStreams == {s \in StreamIds : streams[s].live}

\* right after start() has issued its request, the tracks of the stream that
\* was active have been stopped
ReleasedAtRequest ==
  lastV.op \in {"start", "switch"} => (stream = 0 \/ ~streams[stream].live)

\* C15: release comes before acquire: when start() has issued its request the
\* tracks of the previous stream are already stopped, and at no moment do two
\* streams of the session have live tracks.
C15_ReleaseBeforeAcquire ==
  /\ ReleasedAtRequest
  /\ Cardinality(LiveStreams) <= 1

\* stop() is called in this step
StopStep ==
  /\ lastV'.n # lastV.n
  /\ lastV'.op = "stop"

\* C16: stop() on a live session stops every track of the active stream,
\* clears the active stream and makes the session idle, and the three
\* snapshots are null afterwards; stop() on an idle session changes nothing.
C16_StopReleasesAndClears ==
  [][StopStep =>
       IF isStreaming
       THEN /\ stream # 0
            /\ ~streams'[stream].live
            /\ stream' = 0
            /\ ~isStreaming'
            /\ trackCapabilities' = NullCapabilities
            /\ trackConstraints' = NullConstraints
            /\ trackSettings' = NullConstraints
       ELSE UNCHANGED <<stream, isStreaming, streams, calls, error, cameras,
                        selectedCameraId, trackCapabilities, trackConstraints,
                        trackSettings>>]_vars

C16_Witness ==
  /\ lastV.op = "stop"
  /\ lastV.arg = 2
  /\ streams[2].dev # 0
  /\ ~streams[2].live
  /\ stream = 0
  /\ ~isStreaming
  /\ trackCapabilities = NullCapabilities
  /\ trackConstraints = NullConstraints
  /\ trackSettings = NullConstraints
  /\ "getCapabilities" \in accessors

\* C17: when no operation of the capture session is in progress, the three
\* snapshots are null if no stream is active, and otherwise they are what the
\* track of the active stream reports now.
C17_SnapshotsFollowActiveStream ==
  calls = <<>>
    => /\ trackCapabilities = CapabilitiesOf(streams, stream)
       /\ trackConstraints = ConstraintsOf(streams, stream)
       /\ trackSettings = SettingsOf(streams, stream)

\* C18: when startCamera resumes with the stream it acquired, that stream
\* becomes the active one and the session is live, the enumeration is run
\* again and the three snapshots are those of the new stream's track; the
\* stream was requested with an exact deviceId when a device was given and
\* with the default facing mode otherwise.
C18_SuccessfulStart ==
  [][\A i \in 1..MaxCalls :
       Adopts(i)
         => /\ stream' = calls[i].strm
            /\ isStreaming'
            /\ streams'[stream'].live = streams[stream'].live
            /\ calls'[i] = EnumCall(calls[i].sel)
            /\ trackCapabilities' = CapabilitiesOf(streams', stream')
            /\ trackConstraints' = ConstraintsOf(streams', stream')
            /\ trackSettings' = SettingsOf(streams', stream')
            /\ IF calls[i].dev # 0
               THEN /\ streams'[stream'].cons = {"deviceId"}
                    /\ streams'[stream'].dev = calls[i].dev
               ELSE streams'[stream'].cons = {"facingMode"}]_vars

C18_Witness ==
  /\ lastV.op = "started"
  /\ lastV.arg = 2
  /\ isStreaming
  /\ stream = 2
  /\ streams[2] = [dev |-> 2, live |-> TRUE, cons |-> {"deviceId"}]
  /\ streams[1].cons = {"facingMode"}
  /\ ~streams[1].live
  /\ trackConstraints = [strm |-> 2, cons |-> {"deviceId"}]
  /\ trackCapabilities = [strm |-> 2, caps |-> DeviceCaps(2)]
  /\ \E i \in 1..Len(calls) : calls[i].kind = "enum"

\* switchCamera(cameraId) is called in this step, cameraId being lastV'.arg
SwitchStep ==
  /\ lastV'.n # lastV.n
  /\ lastV'.op \in {"switch", "select"}

\* the step leaves a getUserMedia for device d pending that was not before
Requests(d) ==
  \E i \in 1..Len(calls') :
    /\ i > Len(calls)
    /\ calls'[i].kind = "gum"
    /\ calls'[i].dev = d

\* C19: switchDevice(d) always makes d the selected device; on a live session
\* it stops the current stream and requests a stream of d; on an idle session
\* it does nothing else: no stream is touched or acquired and no request to
\* the platform is issued.
C19_SwitchDevice ==
  [][SwitchStep =>
       /\ selectedCameraId' = lastV'.arg
       /\ IF isStreaming
          THEN /\ stream # 0
               /\ ~streams'[stream].live
               /\ Requests(lastV'.arg)
          ELSE UNCHANGED <<stream, isStreaming, streams, calls>>]_vars

\* C20: once the device list holds a device, the selected device is one of
\* the devices of the current list, also after an enumeration that no longer
\* lists the device that was selected.
C20_SelectionIsListed ==
  Len(cameras) > 0 => \E i \in 1..Len(cameras) : cameras[i] = selectedCameraId

\* the enumerateCameras() of the i-th pending call completes in this step
ListStep(i) ==
  /\ i \in 1..Len(calls)
  /\ calls[i].kind = "enum"
  /\ \/ calls' = RemoveCall(i)
     \/ /\ calls' # calls
        /\ calls' = [calls EXCEPT ![i] = EnumCall(selectedCameraId')]

\* C21: listDevices() selects the first listed camera when none is selected
\* and the list is not empty, leaves a selection that is set as it is, and
\* neither starts a stream nor changes the active stream or isStreaming.
C21_ListDevicesKeepsSelection ==
  [][\A i \in 1..MaxCalls :
       ListStep(i)
         => /\ (selectedCameraId = 0 /\ Len(cameras') > 0)
                 => selectedCameraId' = cameras'[1]
            /\ selectedCameraId # 0 => selectedCameraId' = selectedCameraId
            /\ UNCHANGED <<stream, isStreaming, streams>>]_vars

\* the applyConstraints of the i-th pending call completes in this step
ApplyDone(i) ==
  /\ i \in 1..Len(calls)
  /\ calls[i].kind = "apply"
  /\ calls' = RemoveCall(i)

\* C22: when applyConstraints succeeds the three snapshots are read again from
\* the track, which has the requested constraints if it is live; when it
\* fails an error is recorded and the active stream, isStreaming and the
\* three snapshots are as before.
C22_ApplyOutcome ==
  [][\A i \in 1..MaxCalls :
       ApplyDone(i)
         => IF lastV'.op = "applied"
            THEN /\ streams[calls[i].strm].live
                      => streams'[calls[i].strm].cons = calls[i].req
                 /\ trackCapabilities' = CapabilitiesOf(streams', calls[i].strm)
                 /\ trackConstraints' = ConstraintsOf(streams', calls[i].strm)
                 /\ trackSettings' = SettingsOf(streams', calls[i].strm)
                 /\ UNCHANGED <<stream, isStreaming, error>>
            ELSE /\ lastV'.op = "applyFailed"
                 /\ error' # "null"
                 /\ UNCHANGED <<stream, isStreaming, streams, trackCapabilities,
                                trackConstraints, trackSettings>>]_vars

C22_Witness ==
  /\ lastV.op = "applyFailed"
  /\ error = "applyConstraints"
  /\ calls = <<>>
  /\ isStreaming
  /\ stream # 0
  /\ streams[stream].live
  /\ streams[stream].cons = {"width"}
  /\ trackConstraints = [strm |-> stream, cons |-> {"width"}]
  /\ trackSettings = [strm |-> stream, cons |-> {"width"}]

\* the constraint form is submitted, or a range slider released, in this step
SubmitStep ==
  /\ lastV'.n # lastV.n
  /\ lastV'.op \in {"apply", "zoom", "focusDistance"}

\* the text is a number greater than zero
PositiveNumber(text) == ~NumberOf(text).nan /\ NumberOf(text).val > 0

\* C23: the request applyConstraint sends has width, height or aspectRatio
\* only for an input that is a number greater than zero (other inputs are
\* dropped and no error is set), resizeMode only when one is given, zoom or
\* focusDistance only when the active track reports that range; nothing is
\* sent when there is no active stream.
C23_RequestIsValidated ==
  [][SubmitStep =>
       /\ error' = error
       /\ stream = 0 => calls' = calls
       /\ calls' # calls
            => LET c == calls'[Len(calls')] IN
               /\ calls' = Append(calls, c)
               /\ c.kind = "apply"
               /\ c.strm = stream
               /\ \A f \in TextFields :
                    f \in c.req
                      => lastV'.op = "apply" /\ PositiveNumber(lastV'.form[f])
               /\ "resizeMode" \in c.req
                    => lastV'.op = "apply" /\ lastV'.form.resizeMode # ""
               /\ \A f \in {"zoom", "focusDistance"} :
                    f \in c.req => f \in CapabilitiesOf(streams, stream).caps]_vars

\* setVolume(v) is called in this step, v being lastOp'.arg
VolumeStep ==
  /\ lastOp'.n # lastOp.n
  /\ lastOp'.op = "setVolume"

\* v clamped to [0, 1], in tenths
ClampVolume(v) == IF v < 0 THEN 0 ELSE IF v > 10 THEN 10 ELSE v

\* C24: volume is within [0, 1] in every state; setVolume(v) stores v clamped
\* to [0, 1], gives the gain node that value at once, and leaves isPlaying,
\* the offset, the anchor and the source handle as they are.
C24_VolumeClamped ==
  /\ [](volume \in 0..10)
  /\ [][VolumeStep =>
          /\ volume' = ClampVolume(lastOp'.arg)
          /\ ctx # "none" => gain' = volume'
          /\ UNCHANGED <<isPlaying, pauseTimeRef, startTimeRef, sourceRef,
                         sources>>]_vars

\* togglePlayPause() is called in this step
ToggleStep ==
  /\ lastOp'.n # lastOp.n
  /\ lastOp'.op \in {"toggleNoop", "togglePauseThrew", "togglePause",
                     "togglePlayThrew", "togglePlay"}

\* what pause() does to the session
PauseOutcome ==
  IF PauseThrows
  THEN UNCHANGED <<sources, sourceRef, startTimeRef, pauseTimeRef, isPlaying>>
  ELSE /\ ~isPlaying'
       /\ sourceRef' = 0
       /\ pauseTimeRef' = (IF ctx # "none" THEN ClampOffset(Elapsed, duration)
                           ELSE pauseTimeRef)
       /\ sourceRef # 0 => sources[sourceRef].st # "playing" \/ sourceRef \notin Started'
       /\ UNCHANGED startTimeRef

\* what play() does to the session
PlayOutcome ==
  IF ~CanPlay
  THEN UNCHANGED <<sources, sourceRef, startTimeRef, pauseTimeRef, isPlaying>>
  ELSE /\ sourceRef' # 0
       /\ sourceRef' \in UnusedSources
       /\ startTimeRef' = now - pauseTimeRef
       /\ IF StartThrows(pauseTimeRef)
          THEN sources'[sourceRef'].st = "created" /\ UNCHANGED isPlaying
          ELSE sources'[sourceRef'].st \in {"playing", "ended"} /\ isPlaying'
       /\ UNCHANGED pauseTimeRef

\* C25: togglePlayPause() does nothing when nothing is loaded; when a clip is
\* loaded it does what pause() does if isPlaying and what play() does
\* otherwise; a toggle right after a toggle that started playback leaves the
\* session paused, isPlaying = false.
C25_ToggleIsPauseOrPlay ==
  [][ToggleStep =>
       /\ UNCHANGED <<currentTime, ctx, timers, duration, isLoaded, audioBufferRef>>
       /\ IF ~isLoaded
          THEN UNCHANGED <<sources, sourceRef, startTimeRef, pauseTimeRef, isPlaying>>
          ELSE IF isPlaying THEN PauseOutcome ELSE PlayOutcome
       /\ lastOp.op = "togglePlay" => (~isPlaying' /\ sourceRef' = 0)]_vars

C25_Witness ==
  /\ lastOp.op = "togglePause"
  /\ isLoaded
  /\ ~isPlaying
  /\ sourceRef = 0
  /\ pauseTimeRef = 1
  /\ Started = {}

\* C26: the elapsed-time sampler and the visualization loop are scheduled only
\* while the session is playing (none after pause, after the end-of-media
\* stop, after teardown), and at most one instance of each is scheduled.
C26_LoopsOnlyWhilePlaying ==
  /\ intervals <= 1
  /\ frames <= 1
  /\ ~(mounted /\ isPlaying) => (intervals = 0 /\ frames = 0)

C26_Witness ==
  /\ lastOp.op = "timeUp"
  /\ ~isPlaying
  /\ mounted
  /\ intervals = 0
  /\ frames = 0

\* C27: teardown releases every live handle: once the playback session is torn
\* down no started source is left and the audio context is closed.
C27_TeardownReleasesHandles ==
  ~mounted => (Started = {} /\ ctx # "running")

\* refreshTrackInfo() runs on the active stream in this step: by the refresh
\* button, or by the effect of a start that made its stream the active one
RefreshStep ==
  /\ lastV'.n # lastV.n
  /\ lastV'.op \in {"refresh", "started"}

\* C28: refreshTrackInfo() takes the three accessors as independently optional:
\* with an active stream each snapshot is populated, from that stream, exactly
\* when its accessor is present, and is null when it is absent, whatever the
\* other two accessors are; without a stream all three are null.
C28_AccessorsAreIndependent ==
  [][RefreshStep =>
       /\ (trackCapabilities' # NullCapabilities)
            <=> (stream' # 0 /\ "getCapabilities" \in accessors)
       /\ (trackConstraints' # NullConstraints)
            <=> (stream' # 0 /\ "getConstraints" \in accessors)
       /\ (trackSettings' # NullConstraints)
            <=> (stream' # 0 /\ "getSettings" \in accessors)
       /\ trackCapabilities'.strm \in {0, stream'}
       /\ trackConstraints'.strm \in {0, stream'}
       /\ trackSettings'.strm \in {0, stream'}]_vars

C28_Witness ==
  /\ lastV.op = "refresh"
  /\ stream # 0
  /\ accessors = Accessors \ {"getConstraints"}
  /\ trackConstraints = NullConstraints
  /\ trackCapabilities.strm = stream
  /\ trackSettings.strm = stream

\* the positions of the video input devices in the platform's list
VideoPositions == {i \in 1..Len(devices) : devices[i].kind = "videoinput"}

\* C29: listDevices produces exactly the video input devices, in the
\* platform's order; each keeps its platform label when that is non-empty and
\* otherwise is labelled "Camera N", N its 1-based position among the video
\* devices.
C29_ListIsVideoDevicesInOrder ==
  [][videoDevices' # videoDevices =>
       /\ Len(videoDevices') = Cardinality(VideoPositions)
       /\ \A i \in VideoPositions :
            LET N == Cardinality({j \in VideoPositions : j <= i}) IN
            /\ videoDevices'[N].deviceId = devices[i].deviceId
            /\ videoDevices'[N].label =
                 IF devices[i].label.text # "" THEN devices[i].label
                 ELSE [text |-> "Camera", n |-> N]]_vars

C29_Witness ==
  /\ Len(devices) = 3
  /\ devices[1].kind = "audioinput"
  /\ devices[2].kind = "videoinput"
  /\ devices[2].label.text # ""
  /\ devices[3].kind = "videoinput"
  /\ devices[3].label.text = ""
  /\ Len(videoDevices) = 2
  /\ videoDevices[1].label = devices[2].label
  /\ videoDevices[2] = [deviceId |-> devices[3].deviceId,
                        label |-> [text |-> "Camera", n |-> 2]]

\* the setTimeout(play, 50) of a seek fires in this step
RestartStep ==
  /\ lastOp'.n # lastOp.n
  /\ lastOp'.op \in {"restart", "restartLate"}

\* C30: when the delayed play of a seek-while-playing fires, whatever the user
\* called in the gap, at most one source is started, and the session is not
\* playing if the last call in the gap was a pause or the teardown.
C30_DeferredRestartIsSafe ==
  [][RestartStep =>
       /\ Cardinality(Started') <= 1
       /\ lastOp.op \in {"pause", "togglePause", "unmount", "unmountPlayer"}
            => (~isPlaying' /\ Started' = {})]_vars

\* C31: in every reachable state of the capture session the Live flag and the
\* stream handle agree: isStreaming is true exactly when stream is not null,
\* whatever starts (successful or failed), switches and stops came before.
C31_LiveFlagMatchesStream ==
  isStreaming <=> stream # 0

\* a switch failed while the session was live: the handle is still there, its
\* tracks stopped, and the flag is still set
C31_Witness ==
  /\ error = "getUserMedia"
  /\ isStreaming
  /\ stream # 0
  /\ ~streams[stream].live
  /\ calls = <<>>

\* loadUrl is called with a non-blank URL, or a pending load fails, in this step
FailedLoadStep ==
  /\ lastOp'.n # lastOp.n
  /\ lastOp'.op \in {"loadUrl", "loadFailed"}

\* C32: a failed load leaves the loaded audio intact: neither issuing the load
\* nor its failure changes the decoded clip, duration, fileName, isLoaded, the
\* playback offset, isPlaying or the active source.
C32_FailedLoadKeepsClip ==
  [][FailedLoadStep =>
       UNCHANGED <<audioBufferRef, duration, fileName, isLoaded, pauseTimeRef,
                   startTimeRef, isPlaying, sourceRef, sources, currentTime>>]_vars

\* a load failed while the clip loaded before it was playing
C32_Witness ==
  /\ lastOp.op = "loadFailed"
  /\ isLoaded
  /\ audioBufferRef # 0
  /\ duration = ClipDuration(audioBufferRef)
  /\ fileName = audioBufferRef
  /\ isPlaying
  /\ sourceRef # 0
  /\ sources[sourceRef].st = "playing"
  /\ ~isLoadingUrl

\* the clip, its duration and its name are those of one load
OneLoad ==
  /\ duration = ClipDuration(audioBufferRef)
  /\ fileName = audioBufferRef

\* C33: overlapping loads never leave a mixed state: while the component is
\* mounted with a clip loaded, the decoded clip, duration and fileName come
\* from the same load, and when a load completes the playback offset is 0.
C33_OverlappingLoadsAreNotMixed ==
  /\ [](mounted /\ isLoaded => OneLoad)
  /\ [][lastOp'.n # lastOp.n /\ lastOp'.op = "loaded" => pauseTimeRef' = 0]_vars

\* two loads overlapped and both have completed, one right after the other
C33_Witness ==
  /\ lastOp = [op |-> "loaded", arg |-> 2, n |-> lastOp.n]
  /\ loads = <<>>
  /\ mounted
  /\ isLoaded
  /\ audioBufferRef = 1
  /\ duration = ClipDuration(1)
  /\ fileName = 1
  /\ pauseTimeRef = 0

\* C34: isLoadingUrl is true exactly while a loadUrl call is in flight, and
\* loadUrl with an empty or blank URL changes no state at all.
C34_LoadingFlagTracksLoads ==
  /\ [](mounted => (isLoadingUrl <=> loads # <<>>))
  /\ [][lastOp'.n # lastOp.n /\ lastOp'.op = "loadBlank" =>
          UNCHANGED <<isPlaying, currentTime, duration, fileName, isLoaded,
                      isLoadingUrl, volume, ctx, audioBufferRef, sourceRef,
                      startTimeRef, pauseTimeRef, gain, sources, timers, loads,
                      mounted, intervals, frames, animationFrameRef>>]_vars

\* C35: MusicPlayer and the useWebAudio hook are the same playback machine:
\* after any sequence of play, pause, seek, volume changes and clock ticks
\* given to both from the same loaded state, isPlaying, currentTime, the
\* playback offset, the anchor and the presence of an active source are equal.
C35_PlayerMatchesHook ==
  player.on =>
    /\ player.isPlaying = isPlaying
    /\ player.currentTime = currentTime
    /\ player.pauseTimeRef = pauseTimeRef
    /\ player.startTimeRef = startTimeRef
    /\ (player.sourceRef # 0) <=> (sourceRef # 0)

\* both were playing, had a seek and a volume change, and have restarted
C35_Witness ==
  /\ player.on
  /\ lastOp.op = "restart"
  /\ player.isPlaying
  /\ isPlaying
  /\ player.sourceRef # 0
  /\ player.pauseTimeRef = 1
  /\ player.startTimeRef = -1
  /\ player.volume = 5
  /\ volume = 5

====
